---- MODULE Spec2Model ----
(***************************************************************************)
(* vhdl-tb-gen (src/index.js): a generator of VHDL testbenches from        *)
(* directives written in line comments.                                    *)
(*                                                                         *)
(* Representation of strings.  A JavaScript string is modelled by the      *)
(* sequence of its lexemes: every maximal run of word characters           *)
(* ([A-Za-z0-9_], the \w of the regular expressions of the source) is one  *)
(* element, and every other character (blank, line break, punctuation) is  *)
(* an element of its own.  "sync (clk) every 5 ns;" is                     *)
(*   <<"sync"," ","(","clk",")"," ","every"," ","5"," ","ns",";">>.        *)
(* Concatenation of strings is \o.  Every regular expression of the source *)
(* cuts strings only at boundaries between word and non-word characters    *)
(* (or tests a literal prefix that ends at such a boundary), so it is      *)
(* modelled exactly on lexemes.                                            *)
(***************************************************************************)
EXTENDS Integers, Sequences, FiniteSets, TLC

(***************************************************************************)
(* Bounds of the model.                                                    *)
(***************************************************************************)
\* Largest literal used as a bound of a vector range.
MaxBound == 3
\* Number of line comments the second pass reads.
MaxComments == 4
\* Longest buffer given to the output composer on its own.
MaxBuffer == 6
\* Number of interface declarations of an entity whose ports are drawn freely.
MaxGroups == 3

(***************************************************************************)
(* JavaScript values and string primitives.                                *)
(***************************************************************************)
\* The value undefined.
undefined == [undefined |-> TRUE]

\* What a template literal or a property key makes of undefined.
undefinedText == <<"undefined">>

\* The characters String.prototype.trim removes (those that occur here).
WhiteSpace == {" ", "\t", "\n"}

\* The non-word characters that occur in the texts of the model.
Punctuation == {"(", ")", ",", ";", "<", "=", "'", ":", "*", "-", "+", "."}

IsWord(p) == p \notin WhiteSpace \cup Punctuation

\* Decimal literals and their values.
Numerals == <<"0", "1", "2", "3", "4", "5", "6", "7", "8", "9">>

IsNumeral(p) == \E k \in 1..Len(Numerals) : Numerals[k] = p

NumeralValue(p) == (CHOOSE k \in 1..Len(Numerals) : Numerals[k] = p) - 1

Numeral(v) == Numerals[v + 1]

RECURSIVE Pow2(_)
Pow2(k) == IF k = 0 THEN 1 ELSE 2 * Pow2(k - 1)

\* The concatenation of a sequence of strings: Array.prototype.join('').
RECURSIVE join(_)
join(parts) == IF parts = <<>> THEN <<>> ELSE Head(parts) \o join(Tail(parts))

\* Array.prototype.join(sep).
RECURSIVE joinWith(_, _)
joinWith(parts, sep) ==
  IF parts = <<>> THEN <<>>
  ELSE IF Len(parts) = 1 THEN parts[1]
  ELSE parts[1] \o <<sep>> \o joinWith(Tail(parts), sep)

\* String.prototype.trimStart and trimEnd.
RECURSIVE trimStart(_)
trimStart(s) ==
  IF s # <<>> /\ Head(s) \in WhiteSpace THEN trimStart(Tail(s)) ELSE s

RECURSIVE trimEnd(_)
trimEnd(s) ==
  IF s # <<>> /\ s[Len(s)] \in WhiteSpace
  THEN trimEnd(SubSeq(s, 1, Len(s) - 1)) ELSE s

\* String.prototype.trim.
trim(s) == trimEnd(trimStart(s))

\* String.prototype.split(sep) for a one-character separator.
RECURSIVE split(_, _)
split(s, sep) ==
  LET at == {k \in 1..Len(s) : s[k] = sep}
  IN IF at = {} THEN <<s>>
     ELSE LET k == CHOOSE k \in at : \A j \in at : k <= j
          IN <<SubSeq(s, 1, k - 1)>> \o split(SubSeq(s, k + 1, Len(s)), sep)

\* Array.prototype.filter(Boolean) on strings: drops the empty ones.
filterBoolean(parts) == SelectSeq(parts, LAMBDA p : p # <<>>)

\* String.prototype.startsWith.
startsWith(s, prefix) ==
  Len(s) >= Len(prefix) /\ SubSeq(s, 1, Len(prefix)) = prefix

\* text.match(/^\S+/)?.[0]: the leading run of non-blank characters.
RECURSIVE firstToken(_)
firstToken(s) ==
  IF s = <<>> \/ Head(s) \in WhiteSpace THEN <<>>
  ELSE <<Head(s)>> \o firstToken(Tail(s))

(***************************************************************************)
(* Type bounds (src/index.js, region "Type Bounds").                       *)
(*                                                                         *)
(* A type is the text of its node; a range is undefined or the three       *)
(* children [left, kind, right] of the simple_range node.  The converter   *)
(* closure is the record of what it captured; convert applies it.          *)
(***************************************************************************)
\* type.match(/^\w+/)?.[0]
typeName(type) ==
  IF type # <<>> /\ IsWord(type[1]) THEN type[1] ELSE "undefined"

\* Mutant of lengthText: the keyword of the range is not looked at.
lengthTextDownto(range) ==
  <<"(", "(">> \o range.left \o <<")", " ", "-", " ", "(">> \o range.right
  \o <<")", " ", "+", " ", "1", ")">>

\* `((${reversed ? right.text : left.text}) - (${reversed ? left.text : right.text}) + 1)`
lengthText(range) ==
  LET reversed == range.kind = "to"
  IN <<"(", "(">> \o (IF reversed THEN range.right ELSE range.left)
     \o <<")", " ", "-", " ", "(">>
     \o (IF reversed THEN range.left ELSE range.right)
     \o <<")", " ", "+", " ", "1", ")">>

emptyBounds == [low |-> <<>>, high |-> <<>>, converter |-> [fn |-> "empty"]]

\* Mutant of getTypeBounds: a type that is not known is taken for a one-bit
\* type.
getTypeBoundsOneBit(type, range) ==
  LET name == typeName(type)
  IN IF name \in {"std_ulogic_vector", "std_logic_vector"}
     THEN IF range = undefined
          THEN emptyBounds
          ELSE [low |-> <<"0">>,
                high |-> <<"2", " ", "*", "*", " ">> \o lengthText(range)
                         \o <<" ", "-", " ", "1">>,
                converter |-> [fn |-> "to_unsigned", name |-> name,
                               length |-> lengthText(range)]]
     ELSE [low |-> <<"0">>, high |-> <<"1">>,
           converter |-> [fn |-> "val", type |-> type]]

getTypeBounds(type, range) ==
  LET name == typeName(type)
  IN IF name \in {"bit", "std_logic", "std_ulogic"}
     THEN [low |-> <<"0">>, high |-> <<"1">>,
           converter |-> [fn |-> "val", type |-> type]]
     ELSE IF name \in {"std_ulogic_vector", "std_logic_vector"}
     THEN IF range = undefined
          THEN emptyBounds
          ELSE [low |-> <<"0">>,
                high |-> <<"2", " ", "*", "*", " ">> \o lengthText(range)
                         \o <<" ", "-", " ", "1">>,
                converter |-> [fn |-> "to_unsigned", name |-> name,
                               length |-> lengthText(range)]]
     ELSE emptyBounds

\* converter(i)
convert(converter, i) ==
  IF converter.fn = "val"
  THEN converter.type \o <<"'", "val", "(">> \o i \o <<")">>
  ELSE IF converter.fn = "to_unsigned"
  THEN <<converter.name, "(", "to_unsigned", "(">> \o i \o <<",", " ">>
       \o converter.length \o <<")", ")">>
  ELSE <<>>

(***************************************************************************)
(* JavaScript objects used as ordered tables.  Object.keys and             *)
(* Object.entries list string keys in the order of their first insertion;  *)
(* assigning to a key that exists keeps its place.  (Keys that look like   *)
(* array indices would come first; a VHDL identifier never does.)          *)
(***************************************************************************)
emptyObject == [keys |-> <<>>, at |-> <<>>]

has(obj, key) == \E k \in 1..Len(obj.keys) : obj.keys[k] = key

get(obj, key) ==
  obj.at[CHOOSE k \in 1..Len(obj.keys) : obj.keys[k] = key]

\* Mutant of put: a key assigned again moves to the end.
putLast(obj, key, value) ==
  LET rest == SelectSeq([k \in 1..Len(obj.keys) |-> k], LAMBDA k : obj.keys[k] # key)
  IN [keys |-> Append([k \in 1..Len(rest) |-> obj.keys[rest[k]]], key),
      at |-> Append([k \in 1..Len(rest) |-> obj.at[rest[k]]], value)]

\* obj[key] = value
put(obj, key, value) ==
  IF has(obj, key)
  THEN [obj EXCEPT !.at[CHOOSE k \in 1..Len(obj.keys) : obj.keys[k] = key] = value]
  ELSE [keys |-> Append(obj.keys, key), at |-> Append(obj.at, value)]

(***************************************************************************)
(* The parsed input.  The tree-sitter tree is read through two queries:    *)
(* its entity_declaration nodes (first pass) and its line_comment nodes    *)
(* (second pass).  An entity declaration is                                *)
(*   [name, clauses, head, interfaces]                                     *)
(* with name the text of its "entity" field (<<>> when there is none),     *)
(* clauses the texts of the library and use clauses of its parent, head    *)
(* the text of its entity_head, and interfaces its interface_declaration   *)
(* nodes, each                                                             *)
(*   [ports, indication, mode, type, range]                                *)
(* : the identifiers of children[0], the node type of children[2], the     *)
(* texts of the two children of children[2], and the first simple_range    *)
(* below the type (or undefined).                                          *)
(***************************************************************************)
Range(left, kind, right) == [left |-> left, kind |-> kind, right |-> right]

\* The source text of a subtype indication with an optional range.
TypeText(name, range) ==
  IF range = undefined THEN <<name>>
  ELSE <<name, "(">> \o range.left \o <<" ", range.kind, " ">> \o range.right
       \o <<")">>

Interface(ports, mode, name, range) ==
  [ports |-> ports, indication |-> "simple_mode_indication",
   mode |-> <<mode>>, type |-> TypeText(name, range), range |-> range]

\* The source text of one interface declaration: "a, b : in std_logic".
InterfaceText(int) ==
  joinWith(int.ports, ",") \o <<" ", ":", " ">> \o int.mode \o <<" ">> \o int.type

\* The source text of an entity head: "port (a : in bit; b : out bit);".
HeadText(interfaces) ==
  IF interfaces = <<>> THEN <<>>
  ELSE <<"port", " ", "(">>
       \o joinWith([k \in 1..Len(interfaces) |-> InterfaceText(interfaces[k])], ";")
       \o <<")", ";">>

Entity(name, clauses, interfaces) ==
  [name |-> name, clauses |-> clauses, head |-> HeadText(interfaces),
   interfaces |-> interfaces]

(***************************************************************************)
(* The state of the program.                                               *)
(***************************************************************************)
VARIABLES
  ast,            \* the entity_declaration nodes of the parsed input
  pc,             \* "first" pass, "second" pass, "written", or "failed"
  error,          \* the exception that ended the run, or "none"
  e,              \* first pass: index of the next entity declaration
  i,              \* first pass: index of its next interface (0: none read yet)
  entityClauses,  \* entity name -> text of its library and use clauses
  entityPins,     \* entity name -> (port name -> mode, type and bounds)
  entityHeads,    \* entity name -> text of its entity head
  output,         \* the output buffer
  state,          \* the generation state, or undefined
  text,           \* second pass: the trimmed text of the last comment read
  n,              \* second pass: number of comments read
  block,          \* second pass: the texts of the comments handled in the
                  \* open block, its testbench directive first (history)
  written         \* the text written to the output file, or undefined

vars == <<ast, pc, error, e, i, entityClauses, entityPins, entityHeads,
          output, state, text, n, block, written>>

tables == <<entityClauses, entityPins, entityHeads>>

(***************************************************************************)
(* First pass (src/index.js, region "First pass").                         *)
(***************************************************************************)
\* for (const port of ports) entityPins[name][port.trim()] = {mode, type, ...bounds}
RECURSIVE setPorts(_, _, _)
setPorts(pins, ports, info) ==
  IF ports = <<>> THEN pins
  ELSE setPorts(put(pins, trim(Head(ports)), info), Tail(ports), info)

\* {mode: mode.text, type: type.text, ...bounds}
portInfo(int) ==
  LET bounds == getTypeBounds(int.type, int.range)
  IN [mode |-> int.mode, type |-> int.type, low |-> bounds.low,
      high |-> bounds.high, converter |-> bounds.converter]

\* Where the first pass goes after interface k of entity declaration d.
afterInterface(d, k) ==
  IF k < Len(ast[d].interfaces)
  THEN /\ e' = d /\ i' = k + 1 /\ pc' = "first"
  ELSE /\ e' = d + 1 /\ i' = 0
       /\ pc' = IF d < Len(ast) THEN "first" ELSE "second"

\* Lines 82-101: name, clauses and head of one entity declaration.
EntityDeclaration ==
  /\ pc = "first" /\ i = 0
  /\ LET node == ast[e]
         name == node.name
     IN IF name = <<>>
        THEN /\ pc' = "failed" /\ error' = "AssertionError"
             /\ UNCHANGED <<e, i, tables>>
        ELSE /\ entityClauses' =
                  put(entityClauses, name,
                      join([k \in 1..Len(node.clauses) |-> node.clauses[k] \o <<"\n">>]))
             /\ entityHeads' = put(entityHeads, name, node.head)
             /\ entityPins' =
                  IF has(entityPins, name) THEN entityPins
                  ELSE put(entityPins, name, emptyObject)
             /\ afterInterface(e, 0)
             /\ UNCHANGED error
  /\ UNCHANGED <<ast, output, state, text, n, block, written>>

\* Lines 103-112: one interface declaration of the port clause.
InterfaceDeclaration ==
  /\ pc = "first" /\ i > 0
  /\ LET name == ast[e].name
         int == ast[e].interfaces[i]
     IN IF int.indication # "simple_mode_indication"
        THEN /\ pc' = "failed" /\ error' = "AssertionError"
             /\ UNCHANGED <<e, i, entityPins>>
        ELSE /\ entityPins' =
                  put(entityPins, name,
                      setPorts(get(entityPins, name), int.ports, portInfo(int)))
             /\ afterInterface(e, i)
             /\ UNCHANGED error
  /\ UNCHANGED <<ast, entityClauses, entityHeads, output, state, text, n, block,
                 written>>

(***************************************************************************)
(* Second pass (src/index.js, region "Second pass"): the directives.       *)
(* The strings a template literal builds are concatenations of lexeme      *)
(* sequences; `${entity}_tb` is entity \o <<"_tb">>.                        *)
(***************************************************************************)
defaultState ==
  [entity |-> <<>>, testbench |-> <<>>, sync |-> <<"1", " ", "ns">>, clock |-> <<>>]

\* `${table[key]}`
textAt(table, key) == IF has(table, key) THEN get(table, key) ELSE undefinedText

\* An element of an array destructuring pattern, as a template prints it.
element(parts, k) == IF k <= Len(parts) THEN parts[k] ELSE undefinedText

\* text.match(/^\S+/)?.[0]
keyword(t) == firstToken(t)

\* Mutant of idle: the guard of line 132 left out.
idleNone(t) == FALSE

\* Mutant of idle: the guard of line 132 without its testbench exception.
idleAlways(t) == state = undefined

\* !state && !text.startsWith('testbench ')
idle(t) == state = undefined /\ ~startsWith(t, <<"testbench", " ">>)

\* Mutant of testbenchState: the new state spreads the live state instead of
\* defaultState.
testbenchStateInherit(t) ==
  LET parts == filterBoolean(split(t, " "))
      name == element(parts, 2)
      entity == element(parts, 4)
  IN [(IF state = undefined THEN defaultState ELSE state) EXCEPT
        !.entity = entity,
        !.testbench = IF name = <<"tb">> THEN entity \o <<"_tb">>
                      ELSE entity \o <<"_tb_">> \o name]

\* Lines 137-142: the state a testbench directive creates.
testbenchState(t) ==
  LET parts == filterBoolean(split(t, " "))
      name == element(parts, 2)
      entity == element(parts, 4)
  IN [defaultState EXCEPT
        !.entity = entity,
        !.testbench = IF name = <<"tb">> THEN entity \o <<"_tb">>
                      ELSE entity \o <<"_tb_">> \o name]

\* Line 143.
testbenchText(st) ==
  textAt(entityClauses, st.entity) \o <<"\n", "entity", " ">> \o st.testbench
  \o <<" ", "is", " ", "end", ";", "\n", "\n">>

\* The spellings /every/i matches.
everyWords == {"every", "EVERY", "Every"}

\* text.match(/\bevery (.+);$/i)?.[1] || '1 ns'
syncDuration(t) ==
  LET at == {k \in 1..Len(t) :
               /\ t[k] \in everyWords
               /\ k + 3 <= Len(t)
               /\ t[k + 1] = " "
               /\ t[Len(t)] = ";"
               /\ \A j \in (k + 2)..(Len(t) - 1) : t[j] # "\n"}
  IN IF at = {} THEN <<"1", " ", "ns">>
     ELSE SubSeq(t, (CHOOSE k \in at : \A j \in at : k <= j) + 2, Len(t) - 1)

\* text.match(/^sync \(([^)]+)\)/)?.[1] || ''
syncClock(t) ==
  LET close == {k \in 4..Len(t) : t[k] = ")"}
      first == CHOOSE k \in close : \A j \in close : k <= j
  IN IF startsWith(t, <<"sync", " ", "(">>) /\ close # {} /\ first > 4
     THEN SubSeq(t, 4, first - 1)
     ELSE <<>>

\* Lines 160-162.
beginHead(st) ==
  <<"architecture", " ", "tb", " ", "of", " ">> \o st.testbench
  \o <<" ", "is", "\n">>
  \o <<"component", " ">> \o st.entity \o <<" ">> \o textAt(entityHeads, st.entity)
  \o <<"\n">>
  \o <<"end", " ", "component", ";", "\n", "\n">>

\* Mutant of signalText: with a clock, every pin is initialized.
signalTextInitialized(st, pin, info) ==
  <<"signal", " ">> \o pin \o <<" ", ":", " ">> \o info.type
  \o (IF st.clock # <<>> THEN <<" ", ":", "=", " ", "'", "0", "'">> ELSE <<>>)
  \o <<";", "\n">>

\* Line 165: the declaration of one pin.
signalText(st, pin, info) ==
  <<"signal", " ">> \o pin \o <<" ", ":", " ">> \o info.type
  \o (IF pin = st.clock THEN <<" ", ":", "=", " ", "'", "0", "'">> ELSE <<>>)
  \o <<";", "\n">>

\* Lines 172-175: the association list of the port map.
portMapText(keys) ==
  join([k \in 1..Len(keys) |->
          (IF k = 1 THEN <<>> ELSE <<",", " ">>)
          \o keys[k] \o <<" ", "=", ">", " ">> \o keys[k]])

\* Lines 179-181.
clockText(st) ==
  IF st.clock # <<>>
  THEN st.clock \o <<" ", "<", "=", " ", "not", " ">> \o st.clock
       \o <<" ", "after", " ", "0", ".", "5", " ", "*", " ">> \o st.sync
       \o <<" ", "when", " ", "tb_done", " ", "=", " ", "'", "0", "'", " ",
            "else", " ", "'", "0", "'", ";", "\n", "\n">>
  ELSE <<>>

\* Lines 164-183, for the pins of a known entity.
beginBody(st, pins) ==
  join([k \in 1..Len(pins.keys) |-> signalText(st, pins.keys[k], pins.at[k])])
  \o <<"signal", " ", "tb_done", " ", ":", " ", "bit", " ", ":", "=", " ",
       "'", "0", "'", ";", "\n">>
  \o <<"begin", "\n">>
  \o <<"dut", " ", ":", " ">> \o st.entity \o <<" ", "port", " ", "map", "(">>
  \o portMapText(pins.keys)
  \o <<")", ";", "\n", "\n">>
  \o clockText(st)
  \o <<"process", "\n", "begin", "\n">>

\* `i_${i}`
loopIndex(k) == <<"i_" \o ToString(k)>>

\* Mutant of waitText: the wait is always for the default duration.
waitTextDefault(st) == <<"wait", " ", "for", " ", "1", " ", "ns", ";", "\n">>

\* `wait for ${state.sync};\n`
waitText(st) == <<"wait", " ", "for", " ">> \o st.sync \o <<";", "\n">>

\* text.match(/^every \(([^)]+)\);$/)
everyMatches(t) ==
  /\ Len(t) >= 6
  /\ startsWith(t, <<"every", " ", "(">>)
  /\ t[Len(t) - 1] = ")" /\ t[Len(t)] = ";"
  /\ \A j \in 4..(Len(t) - 2) : t[j] # ")"

\* Line 192, up to the trimmed names: the explicit list, or every pin.
everyNames(t, pins) ==
  LET list == IF everyMatches(t) THEN SubSeq(t, 4, Len(t) - 2)
              ELSE joinWith(pins.keys, ",")
      parts == filterBoolean(split(list, ","))
  IN [k \in 1..Len(parts) |-> trim(parts[k])]

\* Line 193: the opening of loop number k (from 0) and its assignment.
loopText(k, name, info) ==
  <<"for", " ">> \o loopIndex(k) \o <<" ", "in", " ">> \o info.low
  \o <<" ", "to", " ">> \o info.high \o <<" ", "loop", "\n">>
  \o name \o <<" ", "<", "=", " ">> \o convert(info.converter, loopIndex(k))
  \o <<";", "\n">>

\* Mutant of everyText: the wait is emitted after the loops are closed.
everyTextWaitLast(st, names, pins) ==
  join([k \in 1..Len(names) |-> loopText(k - 1, names[k], get(pins, names[k]))])
  \o join([k \in 1..Len(names) |-> <<"end", " ", "loop", ";", "\n">>])
  \o waitText(st)
  \o <<"\n">>

\* Lines 193-195, for names that are all pins.
everyText(st, names, pins) ==
  join([k \in 1..Len(names) |-> loopText(k - 1, names[k], get(pins, names[k]))])
  \o waitText(st)
  \o join([k \in 1..Len(names) |-> <<"end", " ", "loop", ";", "\n">>])
  \o <<"\n">>

\* text.match(/^set \((.+)\);$/)?.[1] || ''
setDefs(t) ==
  IF /\ Len(t) >= 6
     /\ startsWith(t, <<"set", " ", "(">>)
     /\ t[Len(t) - 1] = ")" /\ t[Len(t)] = ";"
     /\ \A j \in 4..(Len(t) - 2) : t[j] # "\n"
  THEN SubSeq(t, 4, Len(t) - 2)
  ELSE <<>>

\* Mutant of setText: a wait after every assignment.
setTextWaitEach(st, t) ==
  LET defs == filterBoolean(split(setDefs(t), ";"))
  IN join([k \in 1..Len(defs) |-> trim(defs[k]) \o <<";", "\n">> \o waitText(st)])
     \o waitText(st) \o <<"\n">>

\* Lines 204-205.
setText(st, t) ==
  LET defs == filterBoolean(split(setDefs(t), ";"))
  IN join([k \in 1..Len(defs) |-> trim(defs[k]) \o <<";", "\n">>])
     \o waitText(st) \o <<"\n">>

\* Mutant of endText: the process is left open.
endTextOpen ==
  <<"tb_done", " ", "<", "=", " ", "'", "1", "'", ";", "\n",
    "wait", ";", "\n",
    "end", ";", "\n", "\n">>

\* Lines 214-217.
endText ==
  <<"tb_done", " ", "<", "=", " ", "'", "1", "'", ";", "\n",
    "wait", ";", "\n",
    "end", " ", "process", ";", "\n",
    "end", ";", "\n", "\n">>

(***************************************************************************)
(* Output composer (src/index.js, line 240).                               *)
(***************************************************************************)
\* s.replace(/\n{3,}/g, '\n\n'): of every run of line breaks, the third and
\* later ones go.
collapse(s) ==
  LET gone(k) == k > 2 /\ s[k] = "\n" /\ s[k - 1] = "\n" /\ s[k - 2] = "\n"
      kept == SelectSeq([k \in 1..Len(s) |-> k], LAMBDA k : ~gone(k))
  IN [j \in 1..Len(kept) |-> s[kept[j]]]

\* Mutant of compose: the buffer is not trimmed.
composeUntrimmed(s) == collapse(s) \o <<"\n">>

\* output.replace(/\n{3,}/g, '\n\n').trim() + '\n'
compose(s) == trim(collapse(s)) \o <<"\n">>

(***************************************************************************)
(* The steps of the second pass: one per line comment, by the case of the  *)
(* switch that handles it.  d is the text of the comment node.             *)
(***************************************************************************)
\* The frame of a step that reads comment d; the history of the open block
\* starts at a testbench directive, grows with every directive handled in the
\* block and ends with the end directive.
read(d) ==
  /\ pc = "second"
  /\ text' = trim(d) /\ n' = n + 1
  /\ block' = IF idle(trim(d)) THEN block
              ELSE IF keyword(trim(d)) = <<"testbench">> THEN <<trim(d)>>
              ELSE IF keyword(trim(d)) \in {<<"end">>, <<"end", ";">>} THEN <<>>
              ELSE Append(block, trim(d))
  /\ UNCHANGED <<ast, e, i, tables, written>>

fail(name) == pc' = "failed" /\ error' = name

continue == pc' = pc /\ error' = error

\* Line 132: no state, and not a testbench directive.
Skip(d) ==
  /\ read(d)
  /\ idle(trim(d))
  /\ continue
  /\ UNCHANGED <<state, output>>

\* Mutant of Testbench: the case asserts that no state is live.
TestbenchRejecting(d) ==
  /\ read(d)
  /\ ~idle(trim(d)) /\ keyword(trim(d)) = <<"testbench">>
  /\ IF state # undefined
     THEN fail("AssertionError") /\ UNCHANGED <<state, output>>
     ELSE /\ state' = testbenchState(trim(d))
          /\ output' = output \o testbenchText(state')
          /\ continue

\* Mutant of Testbench: the library and use clauses are emitted only at the
\* start of the output.
TestbenchClausesOnce(d) ==
  /\ read(d)
  /\ ~idle(trim(d)) /\ keyword(trim(d)) = <<"testbench">>
  /\ state' = testbenchState(trim(d))
  /\ output' = output
                \o (IF output = <<>> THEN testbenchText(state')
                    ELSE <<"\n", "entity", " ">> \o state'.testbench
                         \o <<" ", "is", " ", "end", ";", "\n", "\n">>)
  /\ continue

\* Lines 135-146.
Testbench(d) ==
  /\ read(d)
  /\ ~idle(trim(d)) /\ keyword(trim(d)) = <<"testbench">>
  /\ state' = testbenchState(trim(d))
  /\ output' = output \o testbenchText(state')
  /\ continue

\* Mutant of Sync: a directive without a clock keeps the clock signal.
SyncKeepingClock(d) ==
  /\ read(d)
  /\ ~idle(trim(d)) /\ keyword(trim(d)) = <<"sync">>
  /\ IF state = undefined
     THEN fail("AssertionError") /\ UNCHANGED state
     ELSE /\ state' = [state EXCEPT !.sync = syncDuration(trim(d)),
                                    !.clock = IF syncClock(trim(d)) = <<>>
                                              THEN state.clock
                                              ELSE syncClock(trim(d))]
          /\ continue
  /\ UNCHANGED output

\* Lines 148-155.
Sync(d) ==
  /\ read(d)
  /\ ~idle(trim(d)) /\ keyword(trim(d)) = <<"sync">>
  /\ IF state = undefined
     THEN fail("AssertionError") /\ UNCHANGED state
     ELSE /\ state' = [state EXCEPT !.sync = syncDuration(trim(d)),
                                    !.clock = syncClock(trim(d))]
          /\ continue
  /\ UNCHANGED output

Begin(d) ==
  /\ read(d)
  /\ ~idle(trim(d)) /\ keyword(trim(d)) = <<"begin">>
  /\ IF state = undefined
     THEN fail("AssertionError") /\ UNCHANGED output
     ELSE IF ~has(entityPins, state.entity)
     THEN fail("TypeError") /\ output' = output \o beginHead(state)
     ELSE /\ output' = output \o beginHead(state)
                       \o beginBody(state, get(entityPins, state.entity))
          /\ continue
  /\ UNCHANGED state

Every(d) ==
  /\ read(d)
  /\ ~idle(trim(d)) /\ keyword(trim(d)) = <<"every">>
  /\ IF state = undefined
     THEN fail("AssertionError") /\ UNCHANGED output
     ELSE IF ~has(entityPins, state.entity)
     THEN fail("TypeError") /\ UNCHANGED output
     ELSE LET pins == get(entityPins, state.entity)
              names == everyNames(trim(d), pins)
          IN IF \E k \in 1..Len(names) : ~has(pins, names[k])
             THEN fail("TypeError") /\ UNCHANGED output
             ELSE /\ output' = output \o everyText(state, names, pins)
                  /\ continue
  /\ UNCHANGED state

Set(d) ==
  /\ read(d)
  /\ ~idle(trim(d)) /\ keyword(trim(d)) = <<"set">>
  /\ IF state = undefined
     THEN fail("AssertionError") /\ UNCHANGED output
     ELSE /\ output' = output \o setText(state, trim(d))
          /\ continue
  /\ UNCHANGED state

End(d) ==
  /\ read(d)
  /\ ~idle(trim(d)) /\ keyword(trim(d)) \in {<<"end">>, <<"end", ";">>}
  /\ IF state = undefined
     THEN fail("AssertionError") /\ UNCHANGED <<state, output>>
     ELSE /\ output' = output \o endText
          /\ state' = undefined
          /\ continue

\* Mutant of Default: a directive that is not recognized ends the block.
DefaultEnding(d) ==
  /\ read(d)
  /\ ~idle(trim(d))
  /\ keyword(trim(d)) \notin {<<"testbench">>, <<"sync">>, <<"begin">>, <<"every">>,
                              <<"set">>, <<"end">>, <<"end", ";">>}
  /\ continue
  /\ state' = undefined
  /\ UNCHANGED output

\* Lines 224-226: any other first token.
Default(d) ==
  /\ read(d)
  /\ ~idle(trim(d))
  /\ keyword(trim(d)) \notin {<<"testbench">>, <<"sync">>, <<"begin">>, <<"every">>,
                              <<"set">>, <<"end">>, <<"end", ";">>}
  /\ continue
  /\ UNCHANGED <<state, output>>

\* Line 240, after the last comment.
Write ==
  /\ pc = "second"
  /\ pc' = "written"
  /\ written' = compose(output)
  /\ UNCHANGED <<ast, error, e, i, tables, output, state, text, n, block>>

(***************************************************************************)
(* The generator on small inputs.                                          *)
(***************************************************************************)
ieee == <<"library", " ", "ieee", ";">>

\* entity ha: a, b : in std_logic; v : in std_logic_vector(1 downto 0)
adder ==
  Entity(<<"ha">>, <<ieee>>,
         <<Interface(<<<<"a">>, <<"b">>>>, "in", "std_logic", undefined),
           Interface(<<<<"v">>>>, "in", "std_logic_vector",
                     Range(<<"1">>, "downto", <<"0">>))>>)

\* entity ha: clk, a : in bit; q : out integer
latch ==
  Entity(<<"ha">>, <<>>,
         <<Interface(<<<<"clk">>, <<"a">>>>, "in", "bit", undefined),
           Interface(<<<<"q">>>>, "out", "integer", undefined)>>)

\* The inputs: no entity, or one of the two.
Files == {<<>>, <<adder>>, <<latch>>}

\* The line comments an input may hold.
Comments ==
  {<<"testbench", " ", "tb", " ", "of", " ", "ha", " ", "is">>,
   <<" ", "testbench", " ", "t2", " ", "of", " ", "ha", " ", "is">>,
   <<"sync", " ", "every", " ", "2", " ", "ns", ";">>,
   <<"sync", " ", "(", "clk", ")", " ", "every", " ", "5", " ", "ns", ";">>,
   <<"begin">>,
   <<"every", " ", "(", "a", ",", " ", "v", ")", ";">>,
   <<"every", " ", "(", "a", ")", ";">>,
   <<"every", ";">>,
   <<"every">>,
   <<"set", " ", "(", "a", " ", "<", "=", " ", "'", "1", "'", ";", " ",
     "b", " ", "<", "=", " ", "'", "0", "'", ")", ";">>,
   <<"end", ";">>,
   <<"end">>,
   <<"note">>}

InitWith(files) ==
  /\ ast \in files
  /\ pc = IF ast = <<>> THEN "second" ELSE "first"
  /\ error = "none"
  /\ e = 1 /\ i = 0
  /\ entityClauses = emptyObject
  /\ entityPins = emptyObject
  /\ entityHeads = emptyObject
  /\ output = <<>>
  /\ state = undefined
  /\ text = <<>>
  /\ n = 0
  /\ block = <<>>
  /\ written = <<>>

Init == InitWith(Files)

\* The first pass, then at most MaxComments comments, then the write.
Next ==
  \/ EntityDeclaration
  \/ InterfaceDeclaration
  \/ \E d \in Comments :
       \/ n < MaxComments /\ Skip(d)
       \/ n < MaxComments /\ Testbench(d)
       \/ n < MaxComments /\ Sync(d)
       \/ n < MaxComments /\ Begin(d)
       \/ n < MaxComments /\ Every(d)
       \/ n < MaxComments /\ Set(d)
       \/ n < MaxComments /\ End(d)
       \/ n < MaxComments /\ Default(d)
  \/ Write

Spec == Init /\ [][Next]_vars

(***************************************************************************)
(* The generator on inputs long enough to hold two blocks: one entity,     *)
(* fewer kinds of comments, two more of them.                              *)
(***************************************************************************)
BlockComments ==
  {<<"testbench", " ", "tb", " ", "of", " ", "ha", " ", "is">>,
   <<"sync", " ", "(", "a", ")", " ", "every", " ", "5", " ", "ns", ";">>,
   <<"begin">>,
   <<"every", " ", "(", "a", ")", ";">>,
   <<"set", " ", "(", "b", " ", "<", "=", " ", "'", "0", "'", ")", ";">>,
   <<"end", ";">>,
   <<"note">>}

InitBlocks == InitWith({<<adder>>})

NextBlocks ==
  \/ EntityDeclaration
  \/ InterfaceDeclaration
  \/ \E d \in BlockComments :
       \/ n < MaxComments + 2 /\ Skip(d)
       \/ n < MaxComments + 2 /\ Testbench(d)
       \/ n < MaxComments + 2 /\ Sync(d)
       \/ n < MaxComments + 2 /\ Begin(d)
       \/ n < MaxComments + 2 /\ Every(d)
       \/ n < MaxComments + 2 /\ Set(d)
       \/ n < MaxComments + 2 /\ End(d)
       \/ n < MaxComments + 2 /\ Default(d)
  \/ Write

SpecBlocks == InitBlocks /\ [][NextBlocks]_vars

(***************************************************************************)
(* The generator on entities with any ports: up to MaxGroups interface     *)
(* declarations, some of several names, some naming a port again; the      *)
(* comments open a block and begin its body.                               *)
(***************************************************************************)
InterfacePool ==
  {Interface(<<<<"a">>, <<"b">>>>, "in", "std_logic", undefined),
   Interface(<<<<"s">>>>, "out", "std_logic_vector", Range(<<"1">>, "downto", <<"0">>)),
   Interface(<<<<"b">>, <<"a">>>>, "in", "bit", undefined),
   Interface(<<<<"q">>>>, "out", "integer", undefined)}

PortFiles ==
  {<<Entity(<<"ha">>, <<>>, ints)>> :
     ints \in UNION {[1..k -> InterfacePool] : k \in 0..MaxGroups}}

PortComments ==
  {<<"testbench", " ", "tb", " ", "of", " ", "ha", " ", "is">>,
   <<"sync", " ", "(", "b", ")", " ", "every", " ", "2", " ", "ns", ";">>,
   <<"begin">>}

InitPorts == InitWith(PortFiles)

NextPorts ==
  \/ EntityDeclaration
  \/ InterfaceDeclaration
  \/ \E d \in PortComments :
       \/ n < MaxComments /\ Skip(d)
       \/ n < MaxComments /\ Testbench(d)
       \/ n < MaxComments /\ Sync(d)
       \/ n < MaxComments /\ Begin(d)
  \/ Write

SpecPorts == InitPorts /\ [][NextPorts]_vars

(***************************************************************************)
(* The type bound resolver on every type name and every range with literal *)
(* bounds up to MaxBound: the first pass on an entity with one port x.     *)
(***************************************************************************)
TypeNames ==
  {"bit", "std_logic", "std_ulogic", "std_logic_vector", "std_ulogic_vector",
   "integer"}

Ranges ==
  {Range(<<Numeral(l)>>, kind, <<Numeral(r)>>) :
     l \in 0..MaxBound, kind \in {"downto", "to"}, r \in 0..MaxBound}

BoundFiles ==
  {<<Entity(<<"ha">>, <<>>, <<Interface(<<<<"x">>>>, "in", name, range)>>)>> :
     name \in TypeNames, range \in Ranges \cup {undefined}}

InitBounds == InitWith(BoundFiles)

NextBounds == EntityDeclaration \/ InterfaceDeclaration

SpecBounds == InitBounds /\ [][NextBounds]_vars

(***************************************************************************)
(* The output composer on every buffer of up to MaxBuffer characters.      *)
(***************************************************************************)
Characters == {"\n", " ", "\t", "x"}

InitCompose ==
  /\ ast = <<>>
  /\ pc = "second"
  /\ error = "none"
  /\ e = 1 /\ i = 0
  /\ entityClauses = emptyObject
  /\ entityPins = emptyObject
  /\ entityHeads = emptyObject
  /\ output \in UNION {[1..k -> Characters] : k \in 0..MaxBuffer}
  /\ state = undefined
  /\ text = <<>>
  /\ n = 0
  /\ block = <<>>
  /\ written = <<>>

NextCompose == Write

SpecCompose == InitCompose /\ [][NextCompose]_vars

(***************************************************************************)
(* The generator on blocks with several sync directives: with and without  *)
(* a clock, with blanks around the clock, without the semicolon, without   *)
(* the every clause.                                                       *)
(***************************************************************************)
SyncComments ==
  {<<"testbench", " ", "tb", " ", "of", " ", "ha", " ", "is">>,
   <<"sync", " ", "every", " ", "2", " ", "ns", ";">>,
   <<"sync", " ", "(", "clk", ")", " ", "every", " ", "5", " ", "ns", ";">>,
   <<"sync", " ", "(", " ", "clk", " ", ")", " ", "every", " ", "5", " ", "ns", ";">>,
   <<"sync", " ", "every", " ", "3", " ", "ns">>,
   <<"sync", " ", "(", "clk", ")", ";">>,
   <<"begin">>,
   <<"every", " ", "(", "a", ")", ";">>,
   <<"set", " ", "(", "a", " ", "<", "=", " ", "'", "1", "'", ")", ";">>,
   <<"end", ";">>}

InitSync == InitWith({<<latch>>})

NextSync ==
  \/ EntityDeclaration
  \/ InterfaceDeclaration
  \/ \E d \in SyncComments :
       \/ n < MaxComments /\ Skip(d)
       \/ n < MaxComments /\ Testbench(d)
       \/ n < MaxComments /\ Sync(d)
       \/ n < MaxComments /\ Begin(d)
       \/ n < MaxComments /\ Every(d)
       \/ n < MaxComments /\ Set(d)
       \/ n < MaxComments /\ End(d)
  \/ Write

SpecSync == InitSync /\ [][NextSync]_vars

(***************************************************************************)
(* The generator on blocks with set directives of one, two and three       *)
(* assignments, with and without blanks around them, and one without its   *)
(* semicolon.                                                              *)
(***************************************************************************)
SetComments ==
  {<<"testbench", " ", "tb", " ", "of", " ", "ha", " ", "is">>,
   <<"sync", " ", "every", " ", "2", " ", "ns", ";">>,
   <<"begin">>,
   <<"set", " ", "(", "a", " ", "<", "=", " ", "'", "1", "'", ")", ";">>,
   <<"set", " ", "(", "b", " ", "<", "=", " ", "'", "1", "'", ";", " ",
     "a", " ", "<", "=", " ", "'", "0", "'", ")", ";">>,
   <<"set", " ", "(", " ", "a", " ", "<", "=", " ", "'", "1", "'", " ", ";",
     "b", " ", "<", "=", " ", "'", "0", "'", ";", "\t",
     "v", " ", "<", "=", " ", "v", " ", ")", ";">>,
   <<"set", " ", "(", "a", " ", "<", "=", " ", "'", "1", "'", ")">>,
   <<"end", ";">>}

InitSet == InitWith({<<adder>>})

NextSet ==
  \/ EntityDeclaration
  \/ InterfaceDeclaration
  \/ \E d \in SetComments :
       \/ n < MaxComments /\ Skip(d)
       \/ n < MaxComments /\ Testbench(d)
       \/ n < MaxComments /\ Sync(d)
       \/ n < MaxComments /\ Begin(d)
       \/ n < MaxComments /\ Set(d)
       \/ n < MaxComments /\ End(d)
  \/ Write

SpecSet == InitSet /\ [][NextSet]_vars

(***************************************************************************)
(* Properties.                                                             *)
(***************************************************************************)
\* A step of the second pass that reads one comment; text' is its text.
ReadsComment == pc = "second" /\ n' = n + 1

\* The comment last read was handled by the testbench case.
AfterTestbench ==
  pc = "second" /\ n > 0 /\ startsWith(text, <<"testbench", " ">>)

\* Some text occurs in a string.
Occurs(part, s) ==
  \E k \in 1..(Len(s) - Len(part) + 1) : SubSeq(s, k, k + Len(part) - 1) = part

\* C1. State reset: right after any "testbench <name> of <entity> is"
\* directive is processed, the generation state has sync duration "1 ns" and
\* an empty clock signal, whatever sync directives came before.
C1_StateReset ==
  AfterTestbench =>
    /\ state # undefined
    /\ state.sync = <<"1", " ", "ns">>
    /\ state.clock = <<>>

\* A testbench directive has just been processed after an earlier block ran
\* with "sync every 2 ns;" (its wait is in the output).
C1_Witness ==
  /\ AfterTestbench
  /\ Occurs(<<"wait", " ", "for", " ", "2", " ", "ns", ";">>, output)
  /\ state.sync = <<"1", " ", "ns">>

\* C4. No-op outside a block: while no generation state is active, a comment
\* whose text does not start with "testbench " leaves the state absent and the
\* output unchanged, and the run goes on; only a "testbench ..." comment
\* leaves the idle state.
C4_IdleNoOp ==
  [][(ReadsComment /\ state = undefined) =>
       IF startsWith(text', <<"testbench", " ">>)
       THEN state' # undefined
       ELSE state' = undefined /\ output' = output /\ pc' = "second"
            /\ error' = "none"]_vars

\* A block was closed (its closing is in the output) and a later directive
\* other than testbench was read in the idle state.
C4_Witness ==
  /\ pc = "second" /\ state = undefined
  /\ keyword(text) = <<"sync">>
  /\ Occurs(<<"end", " ", "process", ";">>, output)

\* The bodies of directives that assert a generation state.
Asserting == {<<"begin">>, <<"every">>, <<"set">>}

\* C5 as claimed. Fatal precondition: a begin, every or set directive processed
\* while no generation state is active aborts the run.
C5_Claimed ==
  [][(ReadsComment /\ state = undefined /\ keyword(text') \in Asserting) =>
       pc' = "failed"]_vars

\* C5 as amended. A begin, every or set directive processed while no
\* generation state is active is skipped: no assertion fails, the state stays
\* absent, the output is unchanged and the run goes on.
C5_SkippedWhenIdle ==
  [][(ReadsComment /\ state = undefined /\ keyword(text') \in Asserting) =>
       /\ pc' = "second" /\ error' = "none"
       /\ state' = undefined /\ output' = output]_vars

\* An every directive was read before any testbench directive.
C5_Witness ==
  /\ pc = "second" /\ state = undefined /\ output = <<>>
  /\ keyword(text) = <<"every">>

\* C7 as claimed. No nesting: a testbench directive processed while a
\* generation state is active is rejected with a precondition failure.
C7_Claimed ==
  [][(ReadsComment /\ state # undefined /\ keyword(text') = <<"testbench">>) =>
       pc' = "failed" /\ error' = "AssertionError"]_vars

\* C7 as amended. A testbench directive processed while a generation state is
\* active is not rejected: the run goes on, the live state is replaced by a
\* fresh one for the named entity (default sync, no clock) and one more entity
\* shell is appended to the output.
C7_Replaces ==
  [][(ReadsComment /\ state # undefined /\ keyword(text') = <<"testbench">>) =>
       /\ pc' = "second" /\ error' = "none"
       /\ state' # undefined
       /\ state'.entity = element(filterBoolean(split(text', " ")), 4)
       /\ state'.sync = <<"1", " ", "ns">> /\ state'.clock = <<>>
       /\ Len(output') > Len(output)
       /\ SubSeq(output', 1, Len(output)) = output
       /\ SubSeq(output', Len(output') - 6, Len(output'))
            = <<" ", "is", " ", "end", ";", "\n", "\n">>]_vars

\* A second testbench directive was processed inside an open block: two
\* entity shells with no closing between them, and a live state.
C7_Witness ==
  /\ AfterTestbench /\ state # undefined
  /\ Len(SelectSeq(output, LAMBDA x : x = "entity")) = 2
  /\ ~Occurs(<<"end", " ", "process", ";">>, output)

(***************************************************************************)
(* The meaning of the emitted VHDL statements, as far as the properties    *)
(* need it: the integer value of a bound expression, and the run of a      *)
(* sequence of statement lines, as the trace of its assignments and waits. *)
(***************************************************************************)
\* ((<left>) - (<right>) + 1) with literal bounds.
IsLengthExpr(x) ==
  /\ Len(x) = 15
  /\ SubSeq(x, 1, 2) = <<"(", "(">> /\ IsNumeral(x[3])
  /\ SubSeq(x, 4, 8) = <<")", " ", "-", " ", "(">> /\ IsNumeral(x[9])
  /\ SubSeq(x, 10, 15) = <<")", " ", "+", " ", "1", ")">>

LengthValue(x) == NumeralValue(x[3]) - NumeralValue(x[9]) + 1

\* 2 ** <length> - 1: the power binds tighter than the subtraction.
IsPowerExpr(x) ==
  /\ Len(x) = 24
  /\ SubSeq(x, 1, 5) = <<"2", " ", "*", "*", " ">>
  /\ IsLengthExpr(SubSeq(x, 6, 20))
  /\ SubSeq(x, 21, 24) = <<" ", "-", " ", "1">>

\* The expression is one of these forms and denotes an integer (an integer
\* power needs an exponent that is not negative).
HasValue(x) ==
  \/ Len(x) = 1 /\ IsNumeral(x[1])
  \/ IsLengthExpr(x)
  \/ IsPowerExpr(x) /\ LengthValue(SubSeq(x, 6, 20)) >= 0

Value(x) ==
  IF Len(x) = 1 THEN NumeralValue(x[1])
  ELSE IF IsLengthExpr(x) THEN LengthValue(x)
  ELSE Pow2(LengthValue(SubSeq(x, 6, 20))) - 1

\* for <index> in <low> to <high> loop
ToAt(l) == {k \in 8..(Len(l) - 3) : l[k] = "to" /\ l[k - 1] = " " /\ l[k + 1] = " "}

IsFor(l) ==
  /\ Len(l) >= 13
  /\ SubSeq(l, 1, 2) = <<"for", " ">> /\ IsWord(l[3])
  /\ SubSeq(l, 4, 6) = <<" ", "in", " ">>
  /\ SubSeq(l, Len(l) - 1, Len(l)) = <<" ", "loop">>
  /\ ToAt(l) # {}

ForIndex(l) == l[3]

ForLow(l) == SubSeq(l, 7, (CHOOSE k \in ToAt(l) : \A j \in ToAt(l) : k <= j) - 2)

ForHigh(l) ==
  SubSeq(l, (CHOOSE k \in ToAt(l) : \A j \in ToAt(l) : k <= j) + 2, Len(l) - 2)

IsEndLoop(l) == l = <<"end", " ", "loop", ";">>

\* wait for <duration>;
IsWait(l) ==
  Len(l) >= 6 /\ SubSeq(l, 1, 4) = <<"wait", " ", "for", " ">> /\ l[Len(l)] = ";"

WaitDuration(l) == SubSeq(l, 5, Len(l) - 1)

\* <target> <= <expression>;
GetsAt(l) ==
  {k \in 2..(Len(l) - 4) :
     /\ SubSeq(l, k, k + 3) = <<" ", "<", "=", " ">>
     /\ \A j \in 1..(k - 1) : IsWord(l[j])}

IsAssignment(l) == l # <<>> /\ l[Len(l)] = ";" /\ GetsAt(l) # {}

Target(l) == SubSeq(l, 1, (CHOOSE k \in GetsAt(l) : TRUE) - 1)

Expression(l) == SubSeq(l, (CHOOSE k \in GetsAt(l) : TRUE) + 4, Len(l) - 1)

\* An expression with the loop indices replaced by their values.
Instance(x, env) ==
  [k \in 1..Len(x) |-> IF x[k] \in DOMAIN env THEN Numeral(env[x[k]]) ELSE x[k]]

Bind(env, index, v) ==
  [x \in DOMAIN env \cup {index} |-> IF x = index THEN v ELSE env[x]]

\* The run of the statement lines from line p to the end of their block:
\* [trace, next], next being the line of the "end loop;" that ends the block
\* (or the line after the last one).
RECURSIVE Run(_, _, _)
RECURSIVE Iterate(_, _, _, _, _, _)
Run(lines, p, env) ==
  IF p > Len(lines) \/ IsEndLoop(lines[p])
  THEN [trace |-> <<>>, next |-> p]
  ELSE LET l == lines[p]
       IN IF IsFor(l)
          THEN LET close == Run(lines, p + 1, Bind(env, ForIndex(l), 0)).next
                   rest == Run(lines, close + 1, env)
               IN [trace |-> (IF HasValue(ForLow(l)) /\ HasValue(ForHigh(l))
                              THEN Iterate(lines, p + 1, env, ForIndex(l),
                                           Value(ForLow(l)), Value(ForHigh(l)))
                              ELSE <<>>)
                             \o rest.trace,
                   next |-> rest.next]
          ELSE LET rest == Run(lines, p + 1, env)
                   event == IF IsWait(l)
                            THEN <<[op |-> "wait", duration |-> WaitDuration(l)]>>
                            ELSE IF IsAssignment(l)
                            THEN <<[op |-> "assign", target |-> Target(l),
                                    value |-> Instance(Expression(l), env)]>>
                            ELSE <<>>
               IN [trace |-> event \o rest.trace, next |-> rest.next]

Iterate(lines, p, env, index, v, high) ==
  IF v > high THEN <<>>
  ELSE Run(lines, p, Bind(env, index, v)).trace
       \o Iterate(lines, p, env, index, v + 1, high)

Trace(s) == Run(split(s, "\n"), 1, <<>>).trace

Waits(trace) == Len(SelectSeq(trace, LAMBDA x : x.op = "wait"))

\* The number of values of a declared type: two for the one-bit types,
\* 2^(|left - right| + 1) for a vector with literal bounds; 0 if there is no
\* such number.
DomainSize(type) ==
  IF typeName(type) \in {"bit", "std_logic", "std_ulogic"} THEN 2
  ELSE IF /\ typeName(type) \in {"std_logic_vector", "std_ulogic_vector"}
          /\ Len(type) = 8 /\ IsNumeral(type[3]) /\ IsNumeral(type[7])
  THEN LET l == NumeralValue(type[3])
           r == NumeralValue(type[7])
       IN Pow2((IF l >= r THEN l - r ELSE r - l) + 1)
  ELSE 0

RECURSIVE Product(_)
Product(sizes) == IF sizes = <<>> THEN 1 ELSE Head(sizes) * Product(Tail(sizes))

\* The text a step appends to the output buffer.
Appended == SubSeq(output', Len(output) + 1, Len(output'))

\* The signals an "every (x1, ..., xk);" directive lists.
Listed(t) ==
  LET words == SelectSeq(SubSeq(t, 4, Len(t) - 2), IsWord)
  IN [k \in 1..Len(words) |-> <<words[k]>>]

\* The ports of the current entity.
Pins == get(entityPins, state.entity)

\* A step that processes "every (x1, ..., xk);" in an active block, every xj
\* being a port with a domain.
EveryListed ==
  /\ ReadsComment /\ state # undefined
  /\ keyword(text') = <<"every">> /\ everyMatches(text')
  /\ has(entityPins, state.entity)
  /\ \A k \in 1..Len(Listed(text')) :
       /\ has(Pins, Listed(text')[k])
       /\ DomainSize(get(Pins, Listed(text')[k]).type) > 0

\* The fragment s is k nested loops over the ports xs, opened in order, each
\* ranging over the bounds of its port and assigning it the converted index,
\* with one wait for the duration in the innermost body and k closings.
NestedLoops(s, xs, duration) ==
  LET lines == split(s, "\n")
      k == Len(xs)
  IN /\ Len(lines) = 3 * k + 3
     /\ \A j \in 1..k :
          LET open == lines[2 * j - 1]
              port == get(Pins, xs[j])
          IN /\ IsFor(open)
             /\ \A m \in 1..(j - 1) : ForIndex(lines[2 * m - 1]) # ForIndex(open)
             /\ ForLow(open) = port.low /\ ForHigh(open) = port.high
             /\ IsAssignment(lines[2 * j])
             /\ Target(lines[2 * j]) = xs[j]
             /\ Expression(lines[2 * j]) = convert(port.converter, <<ForIndex(open)>>)
     /\ IsWait(lines[2 * k + 1]) /\ WaitDuration(lines[2 * k + 1]) = duration
     /\ \A j \in (2 * k + 2)..(3 * k + 1) : IsEndLoop(lines[j])
     /\ lines[3 * k + 2] = <<>> /\ lines[3 * k + 3] = <<>>

\* The trace assigns x exactly size pairwise distinct values, each followed
\* by exactly one wait.
AssignsEach(trace, x, size) ==
  /\ Len(trace) = 2 * size
  /\ \A m \in 1..size :
       /\ trace[2 * m - 1].op = "assign" /\ trace[2 * m - 1].target = x
       /\ trace[2 * m].op = "wait"
       /\ \A j \in 1..(m - 1) : trace[2 * j - 1].value # trace[2 * m - 1].value

\* C2. Enumeration completeness: "every (x1, ..., xk);" in an active block,
\* the xj being ports with domain sizes D1..Dk, appends k nested loops opened
\* from x1 (outermost) to xk, each over the bounds of its port and assigning
\* it the converted index, one wait for the sync duration in the innermost
\* body and k closings; its run performs D1*...*Dk waits, and for k = 1
\* exactly D distinct assignments to x, each followed by one wait.
C2_EnumerationComplete ==
  [][EveryListed =>
       LET xs == Listed(text')
           sizes == [k \in 1..Len(xs) |-> DomainSize(get(Pins, xs[k]).type)]
       IN /\ pc' = "second"
          /\ SubSeq(output', 1, Len(output)) = output
          /\ NestedLoops(Appended, xs, state.sync)
          /\ Waits(Trace(Appended)) = Product(sizes)
          /\ Len(xs) = 1 => AssignsEach(Trace(Appended), xs[1], sizes[1])]_vars

\* "every (a, v);" was processed for the entity with a : std_logic and
\* v : std_logic_vector(1 downto 0): two loops, 2 * 4 waits.
C2_Witness ==
  /\ pc = "second" /\ state # undefined /\ ast = <<adder>>
  /\ text = <<"every", " ", "(", "a", ",", " ", "v", ")", ";">>
  /\ Occurs(<<"v", " ", "<", "=", " ", "std_logic_vector", "(", "to_unsigned",
              "(", "i_1", ",">>, output)
  /\ Occurs(<<"end", " ", "loop", ";", "\n", "end", " ", "loop", ";", "\n", "\n">>,
            output)

(***************************************************************************)
(* The parts of a testbench module in the output buffer: the entity shell  *)
(* ("entity <name> is end;" at the start of a line), the opening           *)
(* ("architecture ..." and, after the declarations, "process"), and the    *)
(* closing ("end process;").                                               *)
(***************************************************************************)
PartAt(s, k) ==
  IF s[k] = "entity" /\ k > 1 /\ s[k - 1] = "\n" THEN "shell"
  ELSE IF s[k] = "architecture" THEN "architecture"
  ELSE IF s[k] = "process" /\ k > 1 /\ s[k - 1] = "\n" THEN "process"
  ELSE IF s[k] = "process" /\ k > 2 /\ s[k - 2] = "end" THEN "closing"
  ELSE "none"

Parts(s) ==
  LET at == SelectSeq([k \in 1..Len(s) |-> k], LAMBDA k : PartAt(s, k) # "none")
  IN [j \in 1..Len(at) |-> PartAt(s, at[j])]

Module == <<"shell", "architecture", "process", "closing">>

\* A concatenation of complete modules, then perhaps the start of one.
Ordered(parts) == \A j \in 1..Len(parts) : parts[j] = Module[((j - 1) % 4) + 1]

Complete(parts) == Ordered(parts) /\ Len(parts) % 4 = 0

Recognized ==
  {<<"testbench">>, <<"sync">>, <<"begin">>, <<"every">>, <<"set">>, <<"end">>,
   <<"end", ";">>}

\* The comment read by this step follows the table of transitions: testbench
\* of a declared entity in the idle state; sync and begin before the
\* opening; every, set and end after it; an unrecognized one anywhere.
FollowsTable ==
  LET key == keyword(text')
      parts == Parts(output)
  IN IF state = undefined
     THEN startsWith(text', <<"testbench", " ">>) =>
            has(entityPins, element(filterBoolean(split(text', " ")), 4))
     ELSE \/ key \notin Recognized
          \/ /\ parts # <<>> /\ parts[Len(parts)] = "shell"
             /\ key \in {<<"sync">>, <<"begin">>}
          \/ /\ parts # <<>> /\ parts[Len(parts)] = "process"
             /\ key \in {<<"every">>, <<"set">>, <<"end">>, <<"end", ";">>}

\* The parts the comment read by this step appends.
PartsOf(key) ==
  IF state = undefined /\ ~startsWith(text', <<"testbench", " ">>) THEN <<>>
  ELSE IF key = <<"testbench">> THEN <<"shell">>
  ELSE IF key = <<"begin">> /\ has(entityPins, state.entity)
  THEN <<"architecture", "process">>
  ELSE IF key = <<"begin">> THEN <<"architecture">>
  ELSE IF key \in {<<"end">>, <<"end", ";">>} THEN <<"closing">>
  ELSE <<>>

\* C6 as claimed. Complete modules: for every directive stream, the output
\* buffer that is written is a concatenation of complete modules: each entity
\* shell is followed by exactly one opening and then exactly one closing.
C6_Claimed == pc = "written" => Complete(Parts(output))

\* C6 as amended. The output buffer is the concatenation, in directive order,
\* of one entity shell per testbench directive, one opening per begin and one
\* closing per end processed in an active block, and of no other such part.
\* While the directives follow the table of transitions, it stays a
\* concatenation of complete modules and the start of at most one more, and it
\* is a concatenation of complete modules whenever the block has been closed.
C6_ModulesInOrder ==
  [][ReadsComment =>
       /\ Parts(output') = Parts(output) \o PartsOf(keyword(text'))
       /\ (Ordered(Parts(output)) /\ FollowsTable) =>
            /\ Ordered(Parts(output'))
            /\ state' = undefined => Complete(Parts(output'))]_vars

\* Two blocks were processed and the buffer written: two complete modules.
C6_Witness ==
  /\ pc = "written" /\ state = undefined
  /\ Parts(output) = Module \o Module

\* C8 as claimed. Omitted signal list: "every;" in an active block appends one
\* nested loop per port of the current entity, in declaration order, with one
\* wait in the innermost body, as if every port had been listed.
C8_Claimed ==
  [][(/\ ReadsComment /\ state # undefined
      /\ text' = <<"every", ";">>
      /\ has(entityPins, state.entity)) =>
       /\ pc' = "second"
       /\ Appended = everyText(state, Pins.keys, Pins)]_vars

(***************************************************************************)
(* The ports of an entity as the source text declares them, and as the     *)
(* text emitted by begin shows them.                                       *)
(***************************************************************************)
\* The names of the port clause(s) of an entity, in reading order.
RECURSIVE NamesOf(_)
NamesOf(interfaces) ==
  IF interfaces = <<>> THEN <<>>
  ELSE Head(interfaces).ports \o NamesOf(Tail(interfaces))

RECURSIVE DeclaredNames(_, _)
DeclaredNames(nodes, entity) ==
  IF nodes = <<>> THEN <<>>
  ELSE (IF Head(nodes).name = entity THEN NamesOf(Head(nodes).interfaces) ELSE <<>>)
       \o DeclaredNames(Tail(nodes), entity)

\* A sequence without the later occurrences of its elements.
FirstSeen(names) ==
  LET first == SelectSeq([k \in 1..Len(names) |-> k],
                         LAMBDA k : \A j \in 1..(k - 1) : names[j] # names[k])
  IN [j \in 1..Len(first) |-> names[first[j]]]

\* The associations "formal => actual" of the port map in s.
Associations(s) ==
  LET open == CHOOSE k \in 1..(Len(s) - 1) : s[k] = "map" /\ s[k + 1] = "("
      close == CHOOSE k \in (open + 2)..Len(s) :
                 s[k] = ")" /\ \A j \in (open + 2)..(k - 1) : s[j] # ")"
      items == filterBoolean(split(SubSeq(s, open + 2, close - 1), ","))
  IN [k \in 1..Len(items) |-> trim(items[k])]

\* The lines "signal <name> : <type>[ := '0'];" of s.
SignalLines(s) ==
  SelectSeq(split(s, "\n"), LAMBDA l : startsWith(l, <<"signal", " ">>))

\* A step of the first pass that reads one interface declaration.
ReadsInterface == pc = "first" /\ i > 0 /\ pc' # "failed"

\* A step that processes begin in an active block of a declared entity.
BeginsBody ==
  /\ ReadsComment /\ state # undefined
  /\ keyword(text') = <<"begin">>
  /\ has(entityPins, state.entity)

\* C3. Port-order preservation: the port map emitted by begin lists each port
\* once, in the order the names were declared (first seen, over all interface
\* declarations, also those of several names), the signal declarations follow
\* the same order, and an interface declaration gives every one of its names
\* the same direction, type and bounds.
C3_PortOrder ==
  [][/\ ReadsInterface =>
          LET int == ast[e].interfaces[i]
              pins == get(entityPins', ast[e].name)
          IN \A k \in 1..Len(int.ports) :
               /\ has(pins, int.ports[k])
               /\ get(pins, int.ports[k]) = get(pins, int.ports[1])
               /\ get(pins, int.ports[k]).mode = int.mode
               /\ get(pins, int.ports[k]).type = int.type
     /\ BeginsBody =>
          LET order == FirstSeen(DeclaredNames(ast, state.entity))
              assoc == Associations(Appended)
              lines == SignalLines(Appended)
          IN /\ pc' = "second"
             /\ Len(assoc) = Len(order)
             /\ \A k \in 1..Len(order) :
                  assoc[k] = order[k] \o <<" ", "=", ">", " ">> \o order[k]
             /\ Len(lines) = Len(order) + 1
             /\ \A k \in 1..Len(order) :
                  startsWith(lines[k],
                             <<"signal", " ">> \o order[k] \o <<" ", ":", " ">>
                             \o get(Pins, order[k]).type)
             /\ startsWith(lines[Len(lines)], <<"signal", " ", "tb_done", " ">>)]_vars

\* begin was processed for an entity declared with a, b : in std_logic;
\* s : out std_logic_vector(1 downto 0); b, a : in bit.
C3_Witness ==
  /\ pc = "second" /\ text = <<"begin">> /\ state # undefined
  /\ Len(ast[1].interfaces) = 3
  /\ ast[1].interfaces[3].ports = <<<<"b">>, <<"a">>>>
  /\ Occurs(<<"map", "(", "a", " ", "=", ">", " ", "a", ",", " ",
              "b", " ", "=", ">", " ", "b", ",", " ",
              "s", " ", "=", ">", " ", "s", ")", ";">>, output)

\* C9. Idempotent normalization: the composed text N(s) satisfies
\* N(N(s)) = N(s), ends with exactly one line break and holds no run of three
\* line breaks, for every buffer s.
C9_Idempotent ==
  pc = "written" =>
    /\ compose(written) = written
    /\ written[Len(written)] = "\n"
    /\ Len(written) > 1 => written[Len(written) - 1] # "\n"
    /\ ~Occurs(<<"\n", "\n", "\n">>, written)

\* A buffer with a run of three line breaks inside and blanks around was
\* composed.
C9_Witness ==
  /\ pc = "written"
  /\ output = <<" ", "x", "\n", "\n", "\n", "x">>
  /\ written = <<"x", "\n", "\n", "x", "\n">>

\* The range of the one port of the entity read by the first pass, and the
\* range with the same bounds written in the other direction.
PortRange == ast[1].interfaces[1].range

Mirror(range) ==
  Range(range.right, IF range.kind = "to" THEN "downto" ELSE "to", range.left)

\* The bounds the first pass stored for that port.
PortBounds == get(get(entityPins, <<"ha">>), <<"x">>)

\* The first pass has resolved a vector type with range (N downto 0) or
\* (0 to N).
ResolvedFromZero ==
  /\ pc = "second" /\ has(entityPins, <<"ha">>) /\ has(get(entityPins, <<"ha">>), <<"x">>)
  /\ typeName(ast[1].interfaces[1].type) \in {"std_logic_vector", "std_ulogic_vector"}
  /\ PortRange # undefined
  /\ \/ PortRange.kind = "downto" /\ PortRange.right = <<"0">>
     \/ PortRange.kind = "to" /\ PortRange.left = <<"0">>

\* C10. Range-direction symmetry: for a vector type, the ranges (N downto 0)
\* and (0 to N) resolve to the same width N + 1, the same low bound 0 and the
\* same high bound 2^(N+1) - 1.
C10_DirectionSymmetry ==
  ResolvedFromZero =>
    LET N == NumeralValue(IF PortRange.kind = "to" THEN PortRange.right[1]
                          ELSE PortRange.left[1])
        name == typeName(ast[1].interfaces[1].type)
        other == getTypeBounds(TypeText(name, Mirror(PortRange)), Mirror(PortRange))
    IN /\ HasValue(PortBounds.converter.length)
       /\ Value(PortBounds.converter.length) = N + 1
       /\ Value(PortBounds.low) = 0
       /\ HasValue(PortBounds.high)
       /\ Value(PortBounds.high) = Pow2(N + 1) - 1
       /\ other.low = PortBounds.low
       /\ other.high = PortBounds.high
       /\ other.converter = PortBounds.converter

\* std_logic_vector(0 to 3) was resolved: width 4, high bound 15.
C10_Witness ==
  /\ ResolvedFromZero
  /\ PortRange = Range(<<"0">>, "to", <<"3">>)
  /\ Value(PortBounds.high) = 15

\* The first pass has stored the bounds of the one port x of entity ha.
Resolved ==
  /\ pc = "second" /\ has(entityPins, <<"ha">>)
  /\ has(get(entityPins, <<"ha">>), <<"x">>)

\* The type of that port, as its declaration writes it.
PortType == ast[1].interfaces[1].type

\* Loop indices a converter is applied to.
Indices == {<<"i_0">>, <<"i_1">>, <<"0">>, <<>>}

\* C11. Soft failure of the resolver: for every type name and optional range
\* the resolver returns a bounds record and raises no error; if the leading
\* type name is none of bit, std_logic, std_ulogic, std_logic_vector,
\* std_ulogic_vector, or it is a vector type without a range, the record has
\* low = high = '' and its converter returns the empty string for every
\* index; a one-bit type always has low 0 and high 1.
C11_SoftFailure ==
  /\ pc # "failed" /\ error = "none"
  /\ Resolved =>
       LET name == typeName(PortType)
           scalar == name \in {"bit", "std_logic", "std_ulogic"}
           vector == name \in {"std_logic_vector", "std_ulogic_vector"}
       IN /\ DOMAIN PortBounds = {"mode", "type", "low", "high", "converter"}
          /\ (~scalar /\ ~vector) \/ (vector /\ PortRange = undefined) =>
               /\ PortBounds.low = <<>> /\ PortBounds.high = <<>>
               /\ \A idx \in Indices : convert(PortBounds.converter, idx) = <<>>
          /\ scalar => PortBounds.low = <<"0">> /\ PortBounds.high = <<"1">>

\* A vector type without a range, or an unknown type with a range, was
\* resolved to empty bounds.
C11_Witness ==
  /\ Resolved
  /\ PortBounds.low = <<>>
  /\ \/ typeName(PortType) = "std_logic_vector" /\ PortRange = undefined
     \/ typeName(PortType) = "integer" /\ PortRange # undefined

(***************************************************************************)
(* Signals that are not ports, ports without bounds, directives that are   *)
(* not recognized.                                                         *)
(***************************************************************************)
\* A step that processes "every (x1, ..., xk);" in an active block of a
\* declared entity, some xj not being a port of it.
EveryUnknown ==
  /\ ReadsComment /\ state # undefined
  /\ keyword(text') = <<"every">> /\ everyMatches(text')
  /\ has(entityPins, state.entity)
  /\ \E k \in 1..Len(Listed(text')) : ~has(Pins, Listed(text')[k])

\* Some line of s assigns to the signal x.
Assigns(s, x) ==
  \E k \in 1..Len(split(s, "\n")) :
    startsWith(split(s, "\n")[k], x \o <<" ", "<", "=", " ">>)

\* C12 as claimed. Unknown signal in every: an "every (...)" directive in an
\* active block that names a signal that is not a port of the current entity
\* does not end the run; it appends its loop fragment, the unknown signal
\* being assigned an empty converted value, with one wait.
C12_Claimed ==
  [][EveryUnknown =>
       /\ pc' = "second" /\ error' = "none"
       /\ \A k \in 1..Len(Listed(text')) : Assigns(Appended, Listed(text')[k])
       /\ Occurs(waitText(state), Appended)]_vars

\* A port whose bounds are empty.
Degraded(info) == info.low = <<>> /\ info.high = <<>>

\* C13 as claimed. Degraded port: a port with empty bounds is declared as a
\* signal by begin and appears in its port map, and an every directive without
\* a signal list appends no loop for it.
C13_Claimed ==
  [][(ReadsComment /\ state # undefined /\ has(entityPins, state.entity)) =>
       \A k \in 1..Len(Pins.keys) :
         Degraded(Pins.at[k]) =>
           /\ keyword(text') = <<"begin">> =>
                /\ \E j \in 1..Len(SignalLines(Appended)) :
                     startsWith(SignalLines(Appended)[j],
                                <<"signal", " ">> \o Pins.keys[k] \o <<" ", ":", " ">>)
                /\ \E j \in 1..Len(Associations(Appended)) :
                     Associations(Appended)[j]
                       = Pins.keys[k] \o <<" ", "=", ">", " ">> \o Pins.keys[k]
           /\ (keyword(text') = <<"every">> /\ ~everyMatches(text')) =>
                ~Assigns(Appended, Pins.keys[k])]_vars

\* C14. Unrecognized directive: in an active block, a directive whose first
\* token is none of testbench, sync, begin, every, set, end, end; leaves the
\* generation state and the output buffer unchanged, and the run goes on with
\* the next directive.
C14_UnrecognizedIgnored ==
  [][(ReadsComment /\ state # undefined /\ keyword(text') \notin Recognized) =>
       /\ state' = state /\ output' = output
       /\ pc' = "second" /\ error' = "none"]_vars

\* A directive that is not recognized was read in a block that has a clock
\* and a body, and the block is still open.
C14_Witness ==
  /\ pc = "second" /\ state # undefined
  /\ text = <<"note">>
  /\ state.clock = <<"clk">>
  /\ Occurs(<<"process", "\n", "begin", "\n">>, output)

(***************************************************************************)
(* The sync directives as the README writes them, and the sync directives  *)
(* of a block.                                                             *)
(***************************************************************************)
\* sync every <duration>;
ClockLess(t) ==
  /\ Len(t) >= 6 /\ startsWith(t, <<"sync", " ", "every", " ">>)
  /\ t[Len(t)] = ";"

\* The place of the parenthesis that closes the clock of
\* sync (<clock>) every <duration>;
ClockEnd(t) ==
  {k \in 5..(Len(t) - 5) :
     /\ t[k] = ")" /\ \A j \in 4..(k - 1) : t[j] # ")"
     /\ SubSeq(t, k + 1, k + 3) = <<" ", "every", " ">>}

WithClock(t) ==
  /\ startsWith(t, <<"sync", " ", "(">>) /\ ClockEnd(t) # {}
  /\ t[Len(t)] = ";"

WellFormed(t) == ClockLess(t) \/ WithClock(t)

\* The duration and the clock a well-formed sync directive writes.
Duration(t) ==
  IF ClockLess(t) THEN SubSeq(t, 5, Len(t) - 1)
  ELSE SubSeq(t, (CHOOSE k \in ClockEnd(t) : TRUE) + 4, Len(t) - 1)

Clock(t) == SubSeq(t, 4, (CHOOSE k \in ClockEnd(t) : TRUE) - 1)

\* A step that processes a well-formed sync directive in an active block.
SyncsWellFormed ==
  /\ ReadsComment /\ state # undefined
  /\ keyword(text') = <<"sync">> /\ WellFormed(text')

\* C15 as claimed. Frame of "sync every <dur>;": the form without a clock
\* sets the sync duration to <dur> and changes nothing else, the clock signal
\* set by an earlier "sync (<clk>) every <d1>;" of the block included; neither
\* form changes the entity, the testbench name or the output buffer.
C15_Claimed ==
  [][SyncsWellFormed =>
       /\ pc' = "second" /\ output' = output
       /\ state'.entity = state.entity /\ state'.testbench = state.testbench
       /\ state'.sync = Duration(text')
       /\ state'.clock = IF ClockLess(text') THEN state.clock ELSE Clock(text')]_vars

\* C15 as amended. "sync every <dur>;" sets the sync duration to <dur> and
\* the clock signal to empty, so a clock set by an earlier "sync (<clk>) every
\* <d1>;" of the block is dropped; "sync (<clk>) every <dur>;" sets both;
\* neither form changes the entity, the testbench name or the output buffer.
C15_SyncFrame ==
  [][SyncsWellFormed =>
       /\ pc' = "second" /\ output' = output
       /\ state'.entity = state.entity /\ state'.testbench = state.testbench
       /\ state'.sync = Duration(text')
       /\ state'.clock = IF ClockLess(text') THEN <<>> ELSE Clock(text')]_vars

\* "sync (clk) every 5 ns;" and then "sync every 2 ns;" were processed in
\* one block.
C15_Witness ==
  /\ pc = "second" /\ state # undefined
  /\ block = <<<<"testbench", " ", "tb", " ", "of", " ", "ha", " ", "is">>,
               <<"sync", " ", "(", "clk", ")", " ", "every", " ", "5", " ", "ns", ";">>,
               <<"sync", " ", "every", " ", "2", " ", "ns", ";">>>>
  /\ state.sync = <<"2", " ", "ns">>
  /\ state.clock = <<>>

(***************************************************************************)
(* The duration a block waits for.                                         *)
(***************************************************************************)
\* The sync directives among the comments of a block.
Syncs(b) == SelectSeq(b, LAMBDA t : keyword(t) = <<"sync">>)

\* The duration of the most recent well-formed sync directive of the block,
\* "1 ns" if there is none.
LastWellFormed(b) ==
  LET wf == SelectSeq(Syncs(b), WellFormed)
  IN IF wf = <<>> THEN <<"1", " ", "ns">> ELSE Duration(wf[Len(wf)])

\* The duration of the most recent sync directive of the block if that one
\* is well-formed, "1 ns" if it is not or if there is none.
LastSync(b) ==
  IF Syncs(b) # <<>> /\ WellFormed(Syncs(b)[Len(Syncs(b))])
  THEN Duration(Syncs(b)[Len(Syncs(b))])
  ELSE <<"1", " ", "ns">>

\* The durations of the waits of a fragment, and the duration of its clock
\* toggle ("after 0.5 * <duration> when").
WaitDurations(s) ==
  LET waits == SelectSeq(split(s, "\n"), IsWait)
  IN [k \in 1..Len(waits) |-> WaitDuration(waits[k])]

TogglesEvery(s, duration) ==
  Occurs(<<" ", "after", " ", "0", ".", "5", " ", "*", " ">> \o duration
         \o <<" ", "when", " ">>, s)

\* The text appended by this step waits (and toggles the clock) with the
\* given duration, and the step leaves the generation state alone.
WaitsFor(duration) ==
  /\ state' = state
  /\ keyword(text') \in {<<"every">>, <<"set">>} =>
       WaitDurations(Appended) = <<duration>>
  /\ (keyword(text') = <<"begin">> /\ state.clock # <<>>) =>
       TogglesEvery(Appended, duration)

\* A step that processes begin, every or set in an active block and goes on.
Emits ==
  /\ ReadsComment /\ state # undefined /\ pc' = "second"
  /\ keyword(text') \in {<<"begin">>, <<"every">>, <<"set">>}

\* C16 as claimed. Sync persistence: the duration of every wait emitted by
\* every or set, and of the clock toggle emitted by begin, is that of the most
\* recent well-formed sync directive processed since the testbench directive
\* of the block, or "1 ns" if there is none; begin, every and set do not
\* change the generation state.
C16_Claimed == [][Emits => WaitsFor(LastWellFormed(block))]_vars

\* C16 as amended. The duration is that of the most recent sync directive of
\* the block if that directive is well-formed, and "1 ns" if it is malformed
\* or if the block has no sync directive; begin, every and set do not change
\* the generation state.
C16_SyncPersistence == [][Emits => WaitsFor(LastSync(block))]_vars

\* After "sync every 2 ns;" and the malformed "sync every 3 ns", every (a)
\* emitted a wait for 1 ns.
C16_Witness ==
  /\ pc = "second" /\ state # undefined
  /\ block = <<<<"testbench", " ", "tb", " ", "of", " ", "ha", " ", "is">>,
               <<"sync", " ", "every", " ", "2", " ", "ns", ";">>,
               <<"sync", " ", "every", " ", "3", " ", "ns">>,
               <<"every", " ", "(", "a", ")", ";">>>>
  /\ Occurs(<<"wait", " ", "for", " ", "1", " ", "ns", ";">>, output)

(***************************************************************************)
(* The width of a vector type.                                             *)
(***************************************************************************)
\* The first pass has resolved a vector type with a range of literal bounds.
ResolvedVector ==
  /\ Resolved
  /\ typeName(PortType) \in {"std_logic_vector", "std_ulogic_vector"}
  /\ PortRange # undefined

Left == NumeralValue(PortRange.left[1])

Right == NumeralValue(PortRange.right[1])

\* |left - right|
Distance == IF Left >= Right THEN Left - Right ELSE Right - Left

\* The width is w and the domain is 0 .. 2^w - 1.
HasWidth(w) ==
  /\ HasValue(PortBounds.converter.length)
  /\ Value(PortBounds.converter.length) = w
  /\ Value(PortBounds.low) = 0
  /\ HasValue(PortBounds.high)
  /\ Value(PortBounds.high) = Pow2(w) - 1

\* C17 as claimed. Vector width formula: for a vector type with literal range
\* bounds and either keyword, the width is |left - right| + 1 and the domain
\* is 0 .. 2^width - 1, also when the keyword does not match the order of the
\* bounds (0 downto 3, 3 to 0).  (What the resolver computes is left - right
\* + 1 after the swap for "to", with no absolute value: 1 - |left - right| for
\* such a range.)
C17_Claimed == ResolvedVector => HasWidth(Distance + 1)

(***************************************************************************)
(* The clock in the text emitted by begin.                                 *)
(***************************************************************************)
\* The lines of s that toggle a signal: "<x> <= not <x> after ...".
ToggleLines(s) ==
  SelectSeq(split(s, "\n"), LAMBDA l : Occurs(<<" ", "<", "=", " ", "not", " ">>, l))

\* <clk> <= not <clk> after 0.5 * <sync> when tb_done = '0' else '0';
Toggle(clk, duration) ==
  clk \o <<" ", "<", "=", " ", "not", " ">> \o clk
  \o <<" ", "after", " ", "0", ".", "5", " ", "*", " ">> \o duration
  \o <<" ", "when", " ", "tb_done", " ", "=", " ", "'", "0", "'", " ",
       "else", " ", "'", "0", "'", ";">>

\* C18. Clock emission in begin: begin emits one signal declaration per port
\* of the entity, in order, and one for tb_done; the declaration has the
\* initializer := '0' exactly for the port whose name is the current clock
\* signal; and the clock toggle statement is emitted (once, for the clock and
\* the sync duration of the state) if and only if the clock signal is not
\* empty when begin is processed.
C18_ClockEmission ==
  [][BeginsBody =>
       LET lines == SignalLines(Appended)
           ports == Pins.keys
       IN /\ pc' = "second"
          /\ Len(lines) = Len(ports) + 1
          /\ \A k \in 1..Len(ports) :
               lines[k] = <<"signal", " ">> \o ports[k] \o <<" ", ":", " ">>
                          \o Pins.at[k].type
                          \o (IF ports[k] = state.clock
                              THEN <<" ", ":", "=", " ", "'", "0", "'">> ELSE <<>>)
                          \o <<";">>
          /\ lines[Len(lines)] = <<"signal", " ", "tb_done", " ", ":", " ", "bit",
                                   " ", ":", "=", " ", "'", "0", "'", ";">>
          /\ ToggleLines(Appended) =
               IF state.clock # <<>> THEN <<Toggle(state.clock, state.sync)>>
               ELSE <<>>]_vars

\* begin was processed with the clock b for an entity with the ports a and b:
\* b is initialized, a is not, and b is toggled.
C18_Witness ==
  /\ pc = "second" /\ text = <<"begin">> /\ state # undefined
  /\ state.clock = <<"b">>
  /\ Occurs(<<"signal", " ", "a", " ", ":", " ", "std_logic", ";", "\n",
              "signal", " ", "b", " ", ":", " ", "std_logic", " ", ":", "=", " ",
              "'", "0", "'", ";", "\n">>, output)
  /\ Occurs(<<"b", " ", "<", "=", " ", "not", " ", "b", " ", "after">>, output)

(***************************************************************************)
(* The set directive.                                                      *)
(***************************************************************************)
\* set (<a1>; ...; <an>);
IsSet(t) ==
  /\ Len(t) >= 6 /\ startsWith(t, <<"set", " ", "(">>)
  /\ SubSeq(t, Len(t) - 1, Len(t)) = <<")", ";">>

\* The assignments a1, ..., an as the directive writes them.
Written(t) == split(SubSeq(t, 4, Len(t) - 2), ";")

\* A step that processes "set (<a1>; ...; <an>);" in an active block, every
\* ai being an assignment "<signal> <= <value>".
SetsWritten ==
  /\ ReadsComment /\ state # undefined
  /\ keyword(text') = <<"set">> /\ IsSet(text')
  /\ \A k \in 1..Len(Written(text')) :
       IsAssignment(trim(Written(text')[k]) \o <<";">>)

\* C19. set emission: "set (<a1>; ...; <an>);" in an active block appends the
\* n assignments in their written order, each trimmed and ended by ";", then
\* exactly one wait for the sync duration, and leaves the generation state
\* unchanged; running the fragment performs the n assignments and then one
\* wait, whatever n is.
C19_SetEmission ==
  [][SetsWritten =>
       LET as == Written(text')
           lines == split(Appended, "\n")
           trace == Trace(Appended)
       IN /\ pc' = "second" /\ state' = state
          /\ SubSeq(output', 1, Len(output)) = output
          /\ Len(lines) = Len(as) + 3
          /\ \A k \in 1..Len(as) : lines[k] = trim(as[k]) \o <<";">>
          /\ IsWait(lines[Len(as) + 1])
          /\ WaitDuration(lines[Len(as) + 1]) = state.sync
          /\ lines[Len(as) + 2] = <<>> /\ lines[Len(as) + 3] = <<>>
          /\ Len(trace) = Len(as) + 1 /\ Waits(trace) = 1
          /\ \A k \in 1..Len(as) :
               /\ trace[k].op = "assign"
               /\ trace[k].target = Target(trim(as[k]) \o <<";">>)
          /\ trace[Len(trace)].op = "wait"]_vars

\* A set directive of three assignments written with blanks was processed
\* after "sync every 2 ns;": three trimmed statements and one wait for 2 ns.
C19_Witness ==
  /\ pc = "second" /\ state # undefined
  /\ Len(Written(text)) = 3 /\ keyword(text) = <<"set">>
  /\ Occurs(<<"\n", "a", " ", "<", "=", " ", "'", "1", "'", ";", "\n",
              "b", " ", "<", "=", " ", "'", "0", "'", ";", "\n",
              "v", " ", "<", "=", " ", "v", ";", "\n",
              "wait", " ", "for", " ", "2", " ", "ns", ";", "\n", "\n">>, output)

(***************************************************************************)
(* A block on its own: the second pass over the comments of one block,     *)
(* from the state and the buffer the program starts with, the tables being *)
(* those of the run.                                                       *)
(***************************************************************************)
\* The state after the directive t is handled in the state st.
StateAfter(st, t) ==
  IF st = undefined /\ ~startsWith(t, <<"testbench", " ">>) THEN st
  ELSE IF keyword(t) = <<"testbench">> THEN testbenchState(t)
  ELSE IF keyword(t) = <<"sync">>
  THEN [st EXCEPT !.sync = syncDuration(t), !.clock = syncClock(t)]
  ELSE IF keyword(t) \in {<<"end">>, <<"end", ";">>} THEN undefined
  ELSE st

\* The text the directive t appends in the state st (for a declared entity
\* and listed signals that are ports).
TextOf(st, t) ==
  IF st = undefined /\ ~startsWith(t, <<"testbench", " ">>) THEN <<>>
  ELSE IF keyword(t) = <<"testbench">> THEN testbenchText(testbenchState(t))
  ELSE IF keyword(t) = <<"begin">>
  THEN beginHead(st) \o beginBody(st, get(entityPins, st.entity))
  ELSE IF keyword(t) = <<"every">>
  THEN everyText(st, everyNames(t, get(entityPins, st.entity)),
                 get(entityPins, st.entity))
  ELSE IF keyword(t) = <<"set">> THEN setText(st, t)
  ELSE IF keyword(t) \in {<<"end">>, <<"end", ";">>} THEN endText
  ELSE <<>>

RECURSIVE Generate(_, _, _)
Generate(st, out, b) ==
  IF b = <<>> THEN [state |-> st, output |-> out]
  ELSE Generate(StateAfter(st, Head(b)), out \o TextOf(st, Head(b)), Tail(b))

Alone(b) == Generate(undefined, <<>>, b)

\* A step that handles a directive of a block (its testbench directive, or a
\* directive in the open block) and goes on.
InBlock ==
  /\ ReadsComment /\ pc' = "second"
  /\ state # undefined \/ startsWith(text', <<"testbench", " ">>)

\* The comments of the block up to the one this step handles.
Handled ==
  IF keyword(text') = <<"testbench">> THEN <<text'>> ELSE Append(block, text')

\* C20. Block independence: with a fixed entity table, the text appended to
\* the output buffer from a testbench directive on, up to and including its
\* end, and the generation state, are those of the block processed on its
\* own: they depend on the directives of the block only, not on the
\* directives before its testbench directive nor on the buffer they left.
C20_BlockIndependence ==
  [][InBlock =>
       LET alone == Alone(Handled)
           k == Len(output') - Len(alone.output)
       IN /\ SubSeq(output', 1, Len(output)) = output
          /\ k >= 0
          /\ SubSeq(output', k + 1, Len(output')) = alone.output
          /\ state' = alone.state]_vars

\* A block with "sync (a) every 5 ns;" was closed, and a second block, with
\* no sync directive, has begun its body.
C20_Witness ==
  /\ pc = "second" /\ state # undefined
  /\ block = <<<<"testbench", " ", "tb", " ", "of", " ", "ha", " ", "is">>,
               <<"begin">>>>
  /\ Occurs(<<"after", " ", "0", ".", "5", " ", "*", " ", "5", " ", "ns">>, output)
  /\ Occurs(<<"end", " ", "process", ";">>, output)
  /\ state.sync = <<"1", " ", "ns">> /\ state.clock = <<>>

====
